---- MODULE Spec2Model ----
(***************************************************************************)
(* A model of the Bolide GUI library (src/std/gui/gui.c): the fixed-size   *)
(* registries (callbacks, timers, canvases, menu callbacks, layouts), the  *)
(* layout engine (apply_layout), DPI scaling (gui_scale over MulDiv) and   *)
(* the API calls that change them.                                         *)
(*                                                                         *)
(* Handles (HWND, Layout pointers) are naturals, NULL is 0.  A C array     *)
(* with its count (g_timers and g_timer_count, ...) is a sequence; the     *)
(* count is its length.                                                    *)
(***************************************************************************)
EXTENDS Integers, Sequences, FiniteSets, TLC

NULL == 0

(***************************************************************************)
(* Bounds of the model.  The registry capacities are scaled down from the  *)
(* source's values (MAX_CALLBACKS 256, MAX_TIMERS 32, MAX_CANVAS 32,       *)
(* MAX_MENU_CALLBACKS 128, MAX_LAYOUTS 32, MAX_LAYOUT_CHILDREN 64): the    *)
(* code compares the count with the capacity and nothing else depends on   *)
(* the number.                                                             *)
(***************************************************************************)
MAX_CALLBACKS == 3
MAX_TIMERS == 3
MAX_CANVAS == 2
MAX_MENU_CALLBACKS == 2
MAX_LAYOUTS == 2
MAX_LAYOUT_CHILDREN == 7
\* the largest id the model lets g_timer_id_counter hand out
MaxTimerId == 5
\* the window handles the windowing system hands out are 1..MaxHwnd
MaxHwnd == 2
\* gui_scale is applied to -MaxScaleValue..MaxScaleValue and to the large values
MaxScaleValue == 3
\* the menu ids handed out by the model are g_menu_id's first MaxMenuIds values
MaxMenuIds == 3

\* the controls (canvases) the model lets the library create
MaxControls == 3
\* the drawing operations kept of a back buffer
MaxDrawOps == 1
\* the posted messages the queue holds
MaxQueue == 2
\* the characters of a control's text
MaxTextChars == 3
\* g_wtext_buffer holds 4096 code units and g_text_buffer 8192 bytes; scaled down
WTEXT_BUFFER_LEN == 4
TEXT_BUFFER_SIZE == 8

\* int is 32 bits wide
INT_MAX == 2147483647
\* the base DPI every MulDiv of the library divides by
BASE_DPI == 96
\* the first menu item id and the first control id
FIRST_MENU_ID == 10000
FIRST_CONTROL_ID == 1000
\* the stock font of gui_init's fallback
DEFAULT_GUI_FONT == 17

HWNDS == 1 .. MaxHwnd
\* the handles of the controls (buttons, edits, lists) the inputs speak of
Controls == {11, 12}

Abs(x) == IF x < 0 THEN -x ELSE x

\* C's integer division: the quotient truncated toward zero (b # 0)
CDiv(a, b) ==
    IF (a >= 0) = (b > 0) THEN Abs(a) \div Abs(b) ELSE -(Abs(a) \div Abs(b))

\* C's remainder: a - (a / b) * b, with the sign of a
CMod(a, b) == a - CDiv(a, b) * b

\* The smallest element of a non-empty set of integers
Min(S) == CHOOSE x \in S : \A y \in S : x <= y

(***************************************************************************)
(* MulDiv of the windowing system, as gui_scale, gui_window, gui_set_size, *)
(* create_control and gui_canvas call it: nNumber * nNumerator /           *)
(* nDenominator computed on a 64-bit product, rounded to the nearest       *)
(* integer (the half of the denominator is added to the magnitude before   *)
(* the division), and -1 when the denominator is 0 or the result does not  *)
(* fit an int.  The 64-bit product is kept within the checker's integers   *)
(* by splitting |nNumber| = q * |nDenominator| + r:                        *)
(*   (|a| * |b| + |c| / 2) / |c| = q * |b| + (r * |b| + |c| / 2) / |c|.    *)
(***************************************************************************)
\* MulDiv without the rounding term: the quotient is truncated
MulDivTruncating(nNumber, nNumerator, nDenominator) ==
    IF nDenominator = 0 THEN -1
    ELSE LET A == Abs(nNumber)
             B == Abs(nNumerator)
             C == Abs(nDenominator)
             neg == ((nNumber < 0) # (nNumerator < 0)) # (nDenominator < 0)
             q == A \div C
             r == A % C
             low == (r * B) \div C
         IN  IF B > 0 /\ q > (INT_MAX - low) \div B THEN -1
             ELSE IF neg THEN -(q * B + low) ELSE q * B + low

MulDiv(nNumber, nNumerator, nDenominator) ==
    IF nDenominator = 0 THEN -1
    ELSE LET A == Abs(nNumber)
             B == Abs(nNumerator)
             C == Abs(nDenominator)
             neg == ((nNumber < 0) # (nNumerator < 0)) # (nDenominator < 0)
             q == A \div C
             r == A % C
             low == (r * B + C \div 2) \div C
         IN  IF B > 0 /\ q > (INT_MAX - low) \div B THEN -1
             ELSE IF neg THEN -(q * B + low) ELSE q * B + low

VARIABLES
    windows,              \* the live top-level windows (HWNDs) of the windowing system
    win_dpi,              \* the DPI GetDpiForWindow reports for each window
    client,               \* each window's client area, <<width, height>> (GetClientRect)
    has_GetDpiForWindow,  \* whether user32.dll exports GetDpiForWindow
    g_main_window,
    g_callbacks,
    g_timers,
    g_timer_id_counter,
    g_canvas,
    g_control_id,
    g_menu_callbacks,
    g_menu_id,
    g_layouts,
    call,                 \* the last API call: [name, args, ret] (ret 0 for NULL or void)
    scale_log,            \* the last two gui_scale calls, the latest last: [value, dpi, ret]
    setpos,               \* the SetWindowPos calls of the last call: [hwnd, x, y, cx, cy]
    issued,               \* the set of values gui_set_timer has returned
    child_windows,        \* the live child windows: [hwnd, parent]
    g_hFont,
    g_initialized,
    CreateFontW_fails,    \* whether the system is out of the resources CreateFontW needs
    msg_queue,            \* the posted messages of the thread: [msg, hwnd, wParam]
    quit_posted,          \* PostQuitMessage was called and WM_QUIT not yet retrieved
    gui_run_active,       \* gui_run was called and has not returned
    win_text              \* the text of each control in UTF-16 code units

winVars == <<windows, win_dpi, client, has_GetDpiForWindow>>
callbackVars == <<g_callbacks>>
timerVars == <<g_timers, g_timer_id_counter, issued>>
canvasVars == <<g_canvas, g_control_id, child_windows>>
menuVars == <<g_menu_callbacks, g_menu_id>>
layoutVars == <<g_layouts>>
fontVars == <<g_hFont, g_initialized, CreateFontW_fails>>
loopVars == <<msg_queue, quit_posted, gui_run_active>>
textVars == <<win_text>>
vars == <<windows, win_dpi, client, has_GetDpiForWindow, g_main_window,
          g_callbacks, g_timers, g_timer_id_counter, g_canvas, g_control_id,
          g_menu_callbacks, g_menu_id, g_layouts, call, scale_log, setpos, issued,
          child_windows, g_hFont, g_initialized, CreateFontW_fails, msg_queue,
          quit_posted, gui_run_active, win_text>>

g_callback_count == Len(g_callbacks)
g_timer_count == Len(g_timers)
g_canvas_count == Len(g_canvas)
g_menu_callback_count == Len(g_menu_callbacks)
g_layout_count == Len(g_layouts)

\* The static initialisers of gui.c; no window exists yet.
Init ==
    /\ windows = {}
    /\ win_dpi = [h \in HWNDS |-> BASE_DPI]
    /\ client = [h \in HWNDS |-> <<0, 0>>]
    /\ has_GetDpiForWindow \in BOOLEAN
    /\ g_main_window = NULL
    /\ g_callbacks = <<>>
    /\ g_timers = <<>>
    /\ g_timer_id_counter = 1
    /\ g_canvas = <<>>
    /\ g_control_id = FIRST_CONTROL_ID
    /\ g_menu_callbacks = <<>>
    /\ g_menu_id = FIRST_MENU_ID
    /\ g_layouts = <<>>
    /\ call = [name |-> "none", args |-> <<>>, ret |-> 0]
    /\ scale_log = <<>>
    /\ setpos = <<>>
    /\ issued = {}
    /\ child_windows = {}
    /\ g_hFont = NULL
    /\ g_initialized = 0
    /\ CreateFontW_fails = FALSE
    /\ msg_queue = <<>>
    /\ quit_posted = FALSE
    /\ gui_run_active = FALSE
    /\ win_text = [h \in Controls |-> <<>>]

\* The initial state on a system whose user32.dll has GetDpiForWindow
InitWithDpiApi == Init /\ has_GetDpiForWindow = TRUE

\* GetDpiForWindow of the windowing system: 0 for a handle that is no window
GetDpiForWindow(hwnd) == IF hwnd \in windows THEN win_dpi[hwnd] ELSE 0

gui_get_dpi(hwnd) ==
    IF has_GetDpiForWindow /\ hwnd # NULL THEN GetDpiForWindow(hwnd) ELSE 96

\* A scaling that divides by the 72 points of an inch instead of the 96 base DPI
scale_72(value, dpi) == MulDiv(value, dpi, 72)

\* A scaling that truncates instead of rounding
scale_truncating(value, dpi) == MulDivTruncating(value, dpi, 96)

\* The scaling of gui_scale, gui_window, gui_set_size, create_control and gui_canvas
scale(value, dpi) == MulDiv(value, dpi, 96)

\* CreateFontW of the windowing system: NULL when it fails; a font is named by its
\* pixel size
CreateFontW(nHeight) == IF CreateFontW_fails THEN NULL ELSE Abs(nHeight)

create_scaled_font(dpi) == LET fontSize == MulDiv(14, dpi, 96) IN CreateFontW(-fontSize)

\* gui_scale(value, hwnd): the value scaled to the window's DPI
gui_scale(value, hwnd) ==
    /\ LET dpi == gui_get_dpi(hwnd)
           ret == scale(value, dpi)
       IN  /\ call' = [name |-> "gui_scale", args |-> <<value, hwnd>>, ret |-> ret]
           /\ scale_log' = (IF scale_log = <<>> THEN <<>> ELSE <<scale_log[Len(scale_log)]>>)
                           \o <<[value |-> value, dpi |-> dpi, ret |-> ret]>>
    /\ setpos' = <<>>
    /\ UNCHANGED <<winVars, g_main_window, callbackVars, timerVars, canvasVars,
                   menuVars, layoutVars,
                   fontVars, loopVars, textVars>>

\* a gui_window that makes every new window the main window
gui_window_last_is_main(width, height, dpi, hwnd) ==
    /\ hwnd = NULL \/ (HWNDS \ windows # {} /\ hwnd = Min(HWNDS \ windows))
    /\ LET scaledWidth == scale(width, dpi)
           scaledHeight == scale(height, dpi)
       IN  IF hwnd = NULL
           THEN UNCHANGED <<windows, win_dpi, client>>
           ELSE /\ windows' = windows \cup {hwnd}
                /\ win_dpi' = [win_dpi EXCEPT ![hwnd] = dpi]
                /\ client' = [client EXCEPT ![hwnd] = <<scaledWidth, scaledHeight>>]
    /\ g_main_window' = hwnd
    /\ g_hFont' = create_scaled_font(dpi)
    /\ call' = [name |-> "gui_window", args |-> <<width, height>>, ret |-> hwnd]
    /\ setpos' = <<>>
    /\ UNCHANGED <<has_GetDpiForWindow, callbackVars, timerVars, canvasVars,
                   menuVars, layoutVars, scale_log,
                   g_initialized, CreateFontW_fails, loopVars, textVars>>

\* gui_window(title, width, height): dpi is what GetDeviceCaps(LOGPIXELSX) reports and
\* hwnd what CreateWindowExW returns (NULL when it fails).
gui_window(width, height, dpi, hwnd) ==
    /\ hwnd = NULL \/ (HWNDS \ windows # {} /\ hwnd = Min(HWNDS \ windows))
    /\ LET scaledWidth == scale(width, dpi)
           scaledHeight == scale(height, dpi)
       IN  IF hwnd = NULL
           THEN UNCHANGED <<windows, win_dpi, client>>
           ELSE /\ windows' = windows \cup {hwnd}
                /\ win_dpi' = [win_dpi EXCEPT ![hwnd] = dpi]
                /\ client' = [client EXCEPT ![hwnd] = <<scaledWidth, scaledHeight>>]
    /\ g_main_window' = (IF g_main_window = NULL THEN hwnd ELSE g_main_window)
    /\ g_hFont' = create_scaled_font(dpi)
    /\ call' = [name |-> "gui_window", args |-> <<width, height>>, ret |-> hwnd]
    /\ setpos' = <<>>
    /\ UNCHANGED <<has_GetDpiForWindow, callbackVars, timerVars, canvasVars,
                   menuVars, layoutVars, scale_log,
                   g_initialized, CreateFontW_fails, loopVars, textVars>>

\* WndProc, WM_DPICHANGED: the window moved to a monitor of another DPI; it is resized
\* to the rectangle the system suggests.
WndProc_WM_DPICHANGED(hwnd, newDpi, width, height) ==
    /\ hwnd \in windows
    /\ win_dpi[hwnd] # newDpi
    /\ win_dpi' = [win_dpi EXCEPT ![hwnd] = newDpi]
    /\ client' = [client EXCEPT ![hwnd] = <<width, height>>]
    /\ call' = [name |-> "WM_DPICHANGED", args |-> <<hwnd, newDpi>>, ret |-> 0]
    /\ setpos' = <<[hwnd |-> hwnd, x |-> 0, y |-> 0, cx |-> width, cy |-> height]>>
    /\ LET newFont == create_scaled_font(newDpi)
       IN  g_hFont' = IF newFont # NULL THEN newFont ELSE g_hFont
    /\ UNCHANGED <<windows, has_GetDpiForWindow, g_main_window, callbackVars, timerVars,
                   canvasVars, menuVars, layoutVars, scale_log,
                   g_initialized, CreateFontW_fails, loopVars, textVars>>

\* GetStockObject of the windowing system: a stock object is named by its index
GetStockObject(i) == i

\* gui_init()
gui_init ==
    /\ IF g_initialized # 0
       THEN UNCHANGED <<g_hFont, g_initialized>>
       ELSE /\ g_hFont' = (LET font == create_scaled_font(96)
                           IN  IF font = NULL THEN GetStockObject(DEFAULT_GUI_FONT)
                               ELSE font)
            /\ g_initialized' = 1
    /\ call' = [name |-> "gui_init", args |-> <<>>, ret |-> 1]
    /\ setpos' = <<>>
    /\ UNCHANGED <<winVars, g_main_window, callbackVars, timerVars, canvasVars, menuVars,
                   layoutVars, scale_log, CreateFontW_fails, loopVars, textVars>>

\* The system runs out of, or regains, the resources CreateFontW needs.
GdiResources(exhausted) ==
    /\ CreateFontW_fails # exhausted
    /\ CreateFontW_fails' = exhausted
    /\ UNCHANGED <<winVars, g_main_window, callbackVars, timerVars, canvasVars, menuVars,
                   layoutVars, scale_log, g_hFont, g_initialized, loopVars, textVars,
                   call, setpos>>

(***************************************************************************)
(* DPI scaling: gui_scale applied to small and to large values, for        *)
(* windows of several DPIs.                                                *)
(***************************************************************************)
DpiValues == {96, 144, 192}
ScaleValues ==
    (-MaxScaleValue .. MaxScaleValue)
        \cup {1073741823, 1073741824, INT_MAX, -1073741824}

NextScale ==
    \/ \E dpi \in DpiValues, hwnd \in {NULL, 1} : gui_window(100, 75, dpi, hwnd)
    \/ \E newDpi \in DpiValues :
           WndProc_WM_DPICHANGED(1, newDpi, scale(100, newDpi), scale(75, newDpi))
    \/ \E value \in ScaleValues, hwnd \in {NULL, 1} : gui_scale(value, hwnd)

SpecScale == Init /\ [][NextScale]_vars

(***************************************************************************)
(* Timers: gui_set_timer and gui_kill_timer over g_timers.                 *)
(***************************************************************************)
\* A sequence without its i-th element: the shift-left of gui_kill_timer's inner loop
RemoveAt(seq, i) == [j \in 1 .. Len(seq) - 1 |-> IF j < i THEN seq[j] ELSE seq[j + 1]]

\* The index of the first entry of g_timers with this id, 0 when there is none
find_timer(timer_id) ==
    IF \E i \in DOMAIN g_timers : g_timers[i].id = timer_id
    THEN Min({i \in DOMAIN g_timers : g_timers[i].id = timer_id})
    ELSE 0

\* A gui_set_timer that numbers a timer by its slot in the table
gui_set_timer_slot_id(interval_ms, callback) ==
    /\ IF g_main_window = NULL \/ g_timer_count >= MAX_TIMERS
       THEN /\ call' = [name |-> "gui_set_timer", args |-> <<interval_ms, callback>>, ret |-> 0]
            /\ issued' = issued \cup {0}
            /\ UNCHANGED <<g_timers, g_timer_id_counter>>
       ELSE /\ g_timer_id_counter <= MaxTimerId
            /\ LET id == g_timer_count + 1
               IN  /\ g_timer_id_counter' = g_timer_id_counter + 1
                   /\ g_timers' = Append(g_timers, [id |-> id, callback |-> callback])
                   /\ call' = [name |-> "gui_set_timer", args |-> <<interval_ms, callback>>,
                               ret |-> id]
                   /\ issued' = issued \cup {id}
    /\ setpos' = <<>>
    /\ UNCHANGED <<winVars, g_main_window, callbackVars, canvasVars, menuVars,
                   layoutVars, scale_log,
                   fontVars, loopVars, textVars>>

\* gui_set_timer(interval_ms, callback)
gui_set_timer(interval_ms, callback) ==
    /\ IF g_main_window = NULL \/ g_timer_count >= MAX_TIMERS
       THEN /\ call' = [name |-> "gui_set_timer", args |-> <<interval_ms, callback>>, ret |-> 0]
            /\ issued' = issued \cup {0}
            /\ UNCHANGED <<g_timers, g_timer_id_counter>>
       ELSE /\ g_timer_id_counter <= MaxTimerId
            /\ LET id == g_timer_id_counter
               IN  /\ g_timer_id_counter' = g_timer_id_counter + 1
                   /\ g_timers' = Append(g_timers, [id |-> id, callback |-> callback])
                   /\ call' = [name |-> "gui_set_timer", args |-> <<interval_ms, callback>>,
                               ret |-> id]
                   /\ issued' = issued \cup {id}
    /\ setpos' = <<>>
    /\ UNCHANGED <<winVars, g_main_window, callbackVars, canvasVars, menuVars,
                   layoutVars, scale_log,
                   fontVars, loopVars, textVars>>

\* A gui_kill_timer that overwrites the killed entry with the last one
gui_kill_timer_swap_last(timer_id) ==
    /\ IF g_main_window = NULL \/ find_timer(timer_id) = 0
       THEN UNCHANGED g_timers
       ELSE g_timers' = [j \in 1 .. Len(g_timers) - 1 |->
                            IF j = find_timer(timer_id) THEN g_timers[Len(g_timers)]
                            ELSE g_timers[j]]
    /\ call' = [name |-> "gui_kill_timer", args |-> <<timer_id>>, ret |-> 0]
    /\ setpos' = <<>>
    /\ UNCHANGED <<winVars, g_main_window, callbackVars, g_timer_id_counter, issued,
                   canvasVars, menuVars, layoutVars, scale_log,
                   fontVars, loopVars, textVars>>

\* gui_kill_timer(timer_id)
gui_kill_timer(timer_id) ==
    /\ IF g_main_window = NULL \/ find_timer(timer_id) = 0
       THEN UNCHANGED g_timers
       ELSE g_timers' = RemoveAt(g_timers, find_timer(timer_id))
    /\ call' = [name |-> "gui_kill_timer", args |-> <<timer_id>>, ret |-> 0]
    /\ setpos' = <<>>
    /\ UNCHANGED <<winVars, g_main_window, callbackVars, g_timer_id_counter, issued,
                   canvasVars, menuVars, layoutVars, scale_log,
                   fontVars, loopVars, textVars>>

\* callbacks are function pointers: non-zero numbers
TimerCallbacks == {1, 2}

NextTimers ==
    \/ \E hwnd \in {NULL, 1} : gui_window(100, 75, 96, hwnd)
    \/ \E callback \in TimerCallbacks : gui_set_timer(1000, callback)
    \/ \E timer_id \in 0 .. MaxTimerId : gui_kill_timer(timer_id)

SpecTimers == InitWithDpiApi /\ [][NextTimers]_vars

(***************************************************************************)
(* Callbacks: register_callback, find_callback and the dispatch of         *)
(* WM_COMMAND by WndProc.                                                  *)
(***************************************************************************)
\* the notification codes of <winuser.h> that WndProc compares HIWORD(wParam) with
BN_CLICKED == 0
EN_CHANGE == 768
LBN_SELCHANGE == 1
CBN_SELCHANGE == 1

\* register_callback(hwnd, type, callback), the body of gui_on_click, gui_on_change, ...
register_callback(hwnd, type, callback) ==
    /\ IF g_callback_count < MAX_CALLBACKS
       THEN g_callbacks' = Append(g_callbacks,
                                  [hwnd |-> hwnd, type |-> type, callback |-> callback])
       ELSE UNCHANGED g_callbacks
    /\ call' = [name |-> "register_callback", args |-> <<hwnd, type, callback>>, ret |-> 0]
    /\ setpos' = <<>>
    /\ UNCHANGED <<winVars, g_main_window, timerVars, canvasVars, menuVars, layoutVars,
                   scale_log,
                   fontVars, loopVars, textVars>>

gui_on_click(handle, callback) == register_callback(handle, "CB_CLICK", callback)
gui_on_change(handle, callback) == register_callback(handle, "CB_CHANGE", callback)
gui_on_select(handle, callback) == register_callback(handle, "CB_SELECT", callback)

\* find_callback(hwnd, type): the scan from index 0, NULL when nothing matches
find_callback(hwnd, type) ==
    LET hits == {i \in DOMAIN g_callbacks :
                    g_callbacks[i].hwnd = hwnd /\ g_callbacks[i].type = type}
    IN  IF hits = {} THEN NULL ELSE g_callbacks[Min(hits)].callback

\* WndProc, WM_COMMAND from a control (lParam # 0): the callback it invokes, NULL when
\* it invokes none.  The branches are tried in the order of the source.
WM_COMMAND_callback(ctrl, code) ==
    IF code = BN_CLICKED THEN find_callback(ctrl, "CB_CLICK")
    ELSE IF code = EN_CHANGE THEN find_callback(ctrl, "CB_CHANGE")
    ELSE IF code = LBN_SELCHANGE THEN find_callback(ctrl, "CB_SELECT")
    ELSE IF code = CBN_SELCHANGE THEN find_callback(ctrl, "CB_CHANGE")
    ELSE NULL

\* WndProc, WM_COMMAND with lParam = ctrl # 0 and HIWORD(wParam) = code; ret is the
\* callback that was invoked.
WndProc_WM_COMMAND(ctrl, code) ==
    /\ ctrl # NULL
    /\ call' = [name |-> "WM_COMMAND", args |-> <<ctrl, code>>,
                ret |-> WM_COMMAND_callback(ctrl, code)]
    /\ setpos' = <<>>
    /\ UNCHANGED <<winVars, g_main_window, callbackVars, timerVars, canvasVars, menuVars,
                   layoutVars, scale_log,
                   fontVars, loopVars, textVars>>

\* the controls events come from, and the callbacks registered for them
Callbacks == {1, 2}

NextCallbacks ==
    \/ \E handle \in Controls, callback \in Callbacks : gui_on_click(handle, callback)
    \/ \E handle \in Controls, callback \in Callbacks : gui_on_change(handle, callback)
    \/ \E handle \in Controls, callback \in Callbacks : gui_on_select(handle, callback)
    \/ \E ctrl \in Controls, code \in {BN_CLICKED, EN_CHANGE, LBN_SELCHANGE, CBN_SELCHANGE} :
           WndProc_WM_COMMAND(ctrl, code)

SpecCallbacks == InitWithDpiApi /\ [][NextCallbacks]_vars

(***************************************************************************)
(* Canvases and menu items: the registrations of gui_canvas and            *)
(* gui_menu_item.                                                          *)
(***************************************************************************)
\* gui_canvas(parent, x, y, w, h): hwnd is what CreateWindowExW returns for the canvas
\* window, NULL when it fails; a created control is named by its control id.  memDC is
\* the back buffer: the drawing operations made on it since it was filled with white.
gui_canvas(parent, x, y, w, h, hwnd) ==
    /\ IF g_canvas_count >= MAX_CANVAS
       THEN /\ call' = [name |-> "gui_canvas", args |-> <<parent, x, y, w, h>>, ret |-> NULL]
            /\ UNCHANGED <<g_canvas, g_control_id, child_windows>>
       ELSE /\ g_control_id < FIRST_CONTROL_ID + MaxControls
            /\ hwnd \in {NULL, g_control_id}
            /\ g_control_id' = g_control_id + 1
            /\ LET dpi == gui_get_dpi(parent)
                   sw == scale(w, dpi)
                   sh == scale(h, dpi)
               IN  g_canvas' = IF hwnd = NULL THEN g_canvas
                               ELSE Append(g_canvas,
                                           [hwnd |-> hwnd, width |-> sw, height |-> sh,
                                            memDC |-> <<>>])
            /\ child_windows' = IF hwnd = NULL THEN child_windows
                                ELSE child_windows \cup {[hwnd |-> hwnd,
                                                          parent |-> parent]}
            /\ call' = [name |-> "gui_canvas", args |-> <<parent, x, y, w, h>>, ret |-> hwnd]
    /\ setpos' = <<>>
    /\ UNCHANGED <<winVars, g_main_window, callbackVars, timerVars, menuVars, layoutVars,
                   scale_log,
                   fontVars, loopVars, textVars>>

\* gui_menu_item(menu, text, callback)
gui_menu_item(menu, callback) ==
    /\ g_menu_id < FIRST_MENU_ID + MaxMenuIds
    /\ LET id == g_menu_id
       IN  /\ g_menu_id' = g_menu_id + 1
           /\ g_menu_callbacks' =
                  IF g_menu_callback_count < MAX_MENU_CALLBACKS
                  THEN Append(g_menu_callbacks, [id |-> id, callback |-> callback])
                  ELSE g_menu_callbacks
           /\ call' = [name |-> "gui_menu_item", args |-> <<menu, callback>>, ret |-> id]
    /\ setpos' = <<>>
    /\ UNCHANGED <<winVars, g_main_window, callbackVars, timerVars, canvasVars, layoutVars,
                   scale_log,
                   fontVars, loopVars, textVars>>

\* a lookup that falls back to the first canvas on a miss
find_canvas_or_first(hwnd) ==
    IF \E i \in 1 .. Len(g_canvas) : g_canvas[i].hwnd = hwnd
    THEN Min({i \in 1 .. Len(g_canvas) : g_canvas[i].hwnd = hwnd})
    ELSE IF g_canvas = <<>> THEN NULL ELSE 1

\* find_canvas(hwnd): the index of the first entry of the handle, NULL when there is none
find_canvas(hwnd) ==
    IF \E i \in 1 .. Len(g_canvas) : g_canvas[i].hwnd = hwnd
    THEN Min({i \in 1 .. Len(g_canvas) : g_canvas[i].hwnd = hwnd})
    ELSE NULL

\* The body the drawing primitives share: cd = find_canvas(handle); if (!cd) return;
\* then the GDI operation on cd->memDC.
canvas_draw(name, handle) ==
    /\ LET cd == find_canvas(handle)
       IN  IF cd = NULL THEN UNCHANGED g_canvas
           ELSE /\ Len(g_canvas[cd].memDC) < MaxDrawOps
                /\ g_canvas' = [g_canvas EXCEPT ![cd].memDC = Append(@, name)]
    /\ call' = [name |-> name, args |-> <<handle>>, ret |-> 0]
    /\ setpos' = <<>>
    /\ UNCHANGED <<winVars, g_main_window, callbackVars, timerVars, g_control_id,
                   child_windows, menuVars, layoutVars, scale_log, fontVars, loopVars,
                   textVars>>

gui_canvas_rect(handle) == canvas_draw("gui_canvas_rect", handle)
gui_canvas_fill_rect(handle) == canvas_draw("gui_canvas_fill_rect", handle)
gui_canvas_line(handle) == canvas_draw("gui_canvas_line", handle)
gui_canvas_circle(handle) == canvas_draw("gui_canvas_circle", handle)
gui_canvas_fill_circle(handle) == canvas_draw("gui_canvas_fill_circle", handle)
gui_canvas_text(handle) == canvas_draw("gui_canvas_text", handle)

\* gui_canvas_clear(handle, color): the whole back buffer is filled with the colour
gui_canvas_clear(handle) ==
    /\ LET cd == find_canvas(handle)
       IN  IF cd = NULL THEN UNCHANGED g_canvas
           ELSE g_canvas' = [g_canvas EXCEPT ![cd].memDC = <<"gui_canvas_clear">>]
    /\ call' = [name |-> "gui_canvas_clear", args |-> <<handle>>, ret |-> 0]
    /\ setpos' = <<>>
    /\ UNCHANGED <<winVars, g_main_window, callbackVars, timerVars, g_control_id,
                   child_windows, menuVars, layoutVars, scale_log, fontVars, loopVars,
                   textVars>>

\* the messages of the queue that are not for the window
WithoutMessagesOf(queue, hwnd) == SelectSeq(queue, LAMBDA m : m.hwnd # hwnd)

\* a WM_DESTROY handler that posts the quit message for every window
DestroyWindow_quits_always(hwnd, queue) ==
    IF hwnd \in windows
    THEN /\ windows' = windows \ {hwnd}
         /\ win_dpi' = [win_dpi EXCEPT ![hwnd] = BASE_DPI]
         /\ client' = [client EXCEPT ![hwnd] = <<0, 0>>]
         /\ child_windows' = {c \in child_windows : c.parent # hwnd}
         /\ msg_queue' = WithoutMessagesOf(queue, hwnd)
         /\ quit_posted' = TRUE
    ELSE /\ child_windows' = {c \in child_windows : c.hwnd # hwnd}
         /\ msg_queue' = queue
         /\ UNCHANGED <<windows, win_dpi, client, quit_posted>>

\* DestroyWindow(hwnd) of the windowing system, called when the posted messages are
\* queue.  A top-level window is destroyed with its children and its queued messages,
\* and WndProc handles its WM_DESTROY: the main window posts the quit message.  A child
\* window is handled by its own window procedure.  For a handle that is no window the
\* call fails.
DestroyWindow(hwnd, queue) ==
    IF hwnd \in windows
    THEN /\ windows' = windows \ {hwnd}
         /\ win_dpi' = [win_dpi EXCEPT ![hwnd] = BASE_DPI]
         /\ client' = [client EXCEPT ![hwnd] = <<0, 0>>]
         /\ child_windows' = {c \in child_windows : c.parent # hwnd}
         /\ msg_queue' = WithoutMessagesOf(queue, hwnd)
         /\ quit_posted' = (quit_posted \/ hwnd = g_main_window)
    ELSE /\ child_windows' = {c \in child_windows : c.hwnd # hwnd}
         /\ msg_queue' = queue
         /\ UNCHANGED <<windows, win_dpi, client, quit_posted>>

\* gui_close(hwnd)
gui_close(hwnd) ==
    /\ DestroyWindow(hwnd, msg_queue)
    /\ call' = [name |-> "gui_close", args |-> <<hwnd>>, ret |-> 0]
    /\ setpos' = <<>>
    /\ UNCHANGED <<has_GetDpiForWindow, g_main_window, callbackVars, timerVars, g_canvas,
                   g_control_id, menuVars, layoutVars, scale_log, fontVars,
                   gui_run_active, textVars>>

\* the canvas handles gui_canvas can return, and NULL
CanvasHandles == {NULL} \cup (FIRST_CONTROL_ID .. FIRST_CONTROL_ID + MaxControls - 1)

NextCanvas ==
    \/ gui_window(100, 75, 96, 1)
    \/ \E parent \in windows, hwnd \in {NULL, g_control_id} :
           gui_canvas(parent, 0, 0, 10, 10, hwnd)
    \/ \E handle \in CanvasHandles : gui_canvas_rect(handle)
    \/ \E handle \in CanvasHandles : gui_canvas_fill_rect(handle)
    \/ \E handle \in CanvasHandles : gui_canvas_line(handle)
    \/ \E handle \in CanvasHandles : gui_canvas_circle(handle)
    \/ \E handle \in CanvasHandles : gui_canvas_fill_circle(handle)
    \/ \E handle \in CanvasHandles : gui_canvas_text(handle)
    \/ \E handle \in CanvasHandles : gui_canvas_clear(handle)
    \/ \E hwnd \in {c.hwnd : c \in child_windows} : gui_close(hwnd)

SpecCanvas == InitWithDpiApi /\ [][NextCanvas]_vars

\* Windows created and moved between monitors while font creation succeeds or fails
NextFont ==
    \/ gui_init
    \/ \E exhausted \in BOOLEAN : GdiResources(exhausted)
    \/ \E dpi \in {96, 144}, hwnd \in HWNDS : gui_window(100, 75, dpi, hwnd)
    \/ \E hwnd \in windows, newDpi \in {96, 144, 192} :
           WndProc_WM_DPICHANGED(hwnd, newDpi, 100, 75)
    \/ \E hwnd \in windows : gui_close(hwnd)

SpecFont == InitWithDpiApi /\ [][NextFont]_vars

(***************************************************************************)
(* Control text: gui_set_text and gui_get_text.  A character is named by   *)
(* the length of its encodings; a UTF-8 byte is <<character, k>>, the k-th *)
(* byte of the character, and a UTF-16 code unit likewise.                 *)
(***************************************************************************)
\* an ASCII letter, a CJK ideograph, an emoji outside the basic plane
Chars == {"LATIN", "CJK", "EMOJI"}
\* U+FFFD, which WideCharToMultiByte writes for a surrogate without its pair
REPLACEMENT == "REPLACEMENT"

Utf8Len(c) == IF c = "LATIN" THEN 1 ELSE IF c = "EMOJI" THEN 4 ELSE 3
Utf16Len(c) == IF c = "EMOJI" THEN 2 ELSE 1

Utf8Of(c) == [k \in 1 .. Utf8Len(c) |-> <<c, k>>]
Utf16Of(c) == [k \in 1 .. Utf16Len(c) |-> <<c, k>>]

RECURSIVE Flatten(_)
Flatten(seqs) == IF seqs = <<>> THEN <<>> ELSE Head(seqs) \o Flatten(Tail(seqs))

\* the UTF-8 bytes of a string of characters
Utf8String(chars) == Flatten([i \in 1 .. Len(chars) |-> Utf8Of(chars[i])])

\* MultiByteToWideChar(CP_UTF8, ...) on well-formed UTF-8: each character, found at its
\* first byte, gives its UTF-16 code units
RECURSIVE MultiByteToWideChar(_)
MultiByteToWideChar(bytes) ==
    IF bytes = <<>> THEN <<>>
    ELSE LET c == Head(bytes)[1]
         IN  Utf16Of(c) \o MultiByteToWideChar(SubSeq(bytes, Utf8Len(c) + 1, Len(bytes)))

utf8_to_utf16(utf8) == MultiByteToWideChar(utf8)

\* WideCharToMultiByte(CP_UTF8, ...) without limit: a character's code units give its
\* UTF-8 bytes, a surrogate without its pair gives U+FFFD
RECURSIVE WideCharToMultiByte(_)
WideCharToMultiByte(units) ==
    IF units = <<>> THEN <<>>
    ELSE LET c == Head(units)[1]
         IN  IF Utf16Len(c) = 1
             THEN Utf8Of(c) \o WideCharToMultiByte(Tail(units))
             ELSE IF Head(units)[2] = 1 /\ Len(units) >= 2 /\ units[2] = <<c, 2>>
             THEN Utf8Of(c) \o WideCharToMultiByte(Tail(Tail(units)))
             ELSE <<<<REPLACEMENT, 1>>, <<REPLACEMENT, 2>>, <<REPLACEMENT, 3>>>>
                      \o WideCharToMultiByte(Tail(units))

\* GetWindowTextW(hwnd, buffer, nMaxCount): at most nMaxCount - 1 code units of the text
GetWindowTextW(text, nMaxCount) ==
    SubSeq(text, 1, IF Len(text) < nMaxCount THEN Len(text) ELSE nMaxCount - 1)

\* What gui_get_text can return for a window text.  When the bytes and their terminator
\* do not fit g_text_buffer, WideCharToMultiByte fails and leaves the buffer without
\* terminator: the returned string is the bytes that fit, followed by whatever lies
\* behind the buffer.
gui_get_text_results(text) ==
    LET bytes == WideCharToMultiByte(GetWindowTextW(text, WTEXT_BUFFER_LEN))
    IN  IF Len(bytes) + 1 <= TEXT_BUFFER_SIZE THEN {bytes}
        ELSE {SubSeq(bytes, 1, TEXT_BUFFER_SIZE),
              SubSeq(bytes, 1, TEXT_BUFFER_SIZE) \o <<<<"beyond g_text_buffer", 1>>>>}

\* gui_get_text(handle)
gui_get_text(handle) ==
    /\ \E ret \in gui_get_text_results(win_text[handle]) :
           call' = [name |-> "gui_get_text", args |-> <<handle>>, ret |-> ret]
    /\ setpos' = <<>>
    /\ UNCHANGED <<winVars, g_main_window, callbackVars, timerVars, canvasVars, menuVars,
                   layoutVars, scale_log, fontVars, loopVars, textVars>>

\* gui_set_text(handle, text)
gui_set_text(handle, text) ==
    /\ win_text' = [win_text EXCEPT ![handle] = utf8_to_utf16(text)]
    /\ call' = [name |-> "gui_set_text", args |-> <<handle, text>>, ret |-> 0]
    /\ setpos' = <<>>
    /\ UNCHANGED <<winVars, g_main_window, callbackVars, timerVars, canvasVars, menuVars,
                   layoutVars, scale_log, fontVars, loopVars>>

\* the strings of at most MaxTextChars characters
Strings == UNION {[1 .. n -> Chars] : n \in 0 .. MaxTextChars}

NextText ==
    \/ \E handle \in Controls, chars \in Strings : gui_set_text(handle, Utf8String(chars))
    \/ \E handle \in Controls : gui_get_text(handle)

SpecText == InitWithDpiApi /\ [][NextText]_vars

(***************************************************************************)
(* The message loop: gui_run retrieves the posted messages of the thread   *)
(* one by one and dispatches each to WndProc; gui_quit, and the            *)
(* destruction of the main window, post the quit message.  An API call     *)
(* made while gui_run is active is a call made by a callback.              *)
(***************************************************************************)
\* The system posts WM_TIMER for a timer that SetTimer started on the main window and
\* KillTimer has not stopped.
TimerElapses(id) ==
    /\ g_main_window \in windows
    /\ \E i \in 1 .. Len(g_timers) : g_timers[i].id = id
    /\ Len(msg_queue) < MaxQueue
    /\ msg_queue' = Append(msg_queue,
                           [msg |-> "WM_TIMER", hwnd |-> g_main_window, wParam |-> id])
    /\ UNCHANGED <<winVars, g_main_window, callbackVars, timerVars, canvasVars, menuVars,
                   layoutVars, scale_log, fontVars, quit_posted, gui_run_active, textVars,
                   call, setpos>>

\* The user closes a window: the system posts WM_CLOSE to it.
UserClosesWindow(hwnd) ==
    /\ hwnd \in windows
    /\ Len(msg_queue) < MaxQueue
    /\ msg_queue' = Append(msg_queue, [msg |-> "WM_CLOSE", hwnd |-> hwnd, wParam |-> 0])
    /\ UNCHANGED <<winVars, g_main_window, callbackVars, timerVars, canvasVars, menuVars,
                   layoutVars, scale_log, fontVars, quit_posted, gui_run_active, textVars,
                   call, setpos>>

\* gui_run(): the call enters the loop
gui_run ==
    /\ ~gui_run_active
    /\ gui_run_active' = TRUE
    /\ call' = [name |-> "gui_run", args |-> <<>>, ret |-> 0]
    /\ setpos' = <<>>
    /\ UNCHANGED <<winVars, g_main_window, callbackVars, timerVars, canvasVars, menuVars,
                   layoutVars, scale_log, fontVars, msg_queue, quit_posted, textVars>>

\* gui_run(): GetMessage retrieves WM_QUIT, after the posted messages, and returns 0;
\* the loop ends and gui_run returns.
gui_run_return ==
    /\ gui_run_active
    /\ msg_queue = <<>>
    /\ quit_posted
    /\ gui_run_active' = FALSE
    /\ quit_posted' = FALSE
    /\ call' = [name |-> "gui_run_return", args |-> <<>>, ret |-> 0]
    /\ setpos' = <<>>
    /\ UNCHANGED <<winVars, g_main_window, callbackVars, timerVars, canvasVars, menuVars,
                   layoutVars, scale_log, fontVars, msg_queue, textVars>>

\* gui_quit()
gui_quit ==
    /\ quit_posted' = TRUE
    /\ call' = [name |-> "gui_quit", args |-> <<>>, ret |-> 0]
    /\ setpos' = <<>>
    /\ UNCHANGED <<winVars, g_main_window, callbackVars, timerVars, canvasVars, menuVars,
                   layoutVars, scale_log, fontVars, msg_queue, gui_run_active, textVars>>

\* the message gui_run dispatches next
IsNextMessage(msg, hwnd, wParam) ==
    /\ gui_run_active
    /\ msg_queue # <<>>
    /\ Head(msg_queue) = [msg |-> msg, hwnd |-> hwnd, wParam |-> wParam]

\* What a timer callback does when it is called: the API calls it makes, in order,
\* [op |-> "kill", id |-> ...] for gui_kill_timer and [op |-> "set", callback |-> ...]
\* for gui_set_timer.  The dispatch loop works on
\* [timers, counter, issued, invoked]: g_timers, g_timer_id_counter, the values
\* gui_set_timer has returned and the callbacks called so far.
\* gui_kill_timer(id), called by a callback
kill_timer_in(st, id) ==
    IF g_main_window = NULL \/ ~(\E i \in 1 .. Len(st.timers) : st.timers[i].id = id)
    THEN st
    ELSE [st EXCEPT !.timers =
              RemoveAt(@, Min({i \in 1 .. Len(st.timers) : st.timers[i].id = id}))]

\* gui_set_timer(interval_ms, callback), called by a callback
set_timer_in(st, callback) ==
    IF g_main_window = NULL \/ Len(st.timers) >= MAX_TIMERS
    THEN [st EXCEPT !.issued = @ \cup {0}]
    ELSE [st EXCEPT !.timers = Append(@, [id |-> st.counter, callback |-> callback]),
                    !.counter = @ + 1,
                    !.issued = @ \cup {st.counter}]

RECURSIVE run_callback(_, _)
run_callback(st, script) ==
    IF script = <<>> THEN st
    ELSE run_callback(IF Head(script).op = "kill" THEN kill_timer_in(st, Head(script).id)
                      ELSE set_timer_in(st, Head(script).callback),
                      Tail(script))

\* a test that lets every timer with a callback fire, whatever the id of the message
timer_fires_any(timer, wParam) == timer.callback # NULL

\* g_timers[i].id == wParam && g_timers[i].callback
timer_fires(timer, wParam) == timer.id = wParam /\ timer.callback # NULL

\* WndProc, WM_TIMER: the loop for (i = 0; i < g_timer_count; i++) from index i on (from
\* 1 here); g_timer_count is read again after every callback.
RECURSIVE timer_loop(_, _, _, _)
timer_loop(i, st, wParam, script) ==
    IF i > Len(st.timers) THEN st
    ELSE IF timer_fires(st.timers[i], wParam)
    THEN timer_loop(i + 1,
                    run_callback([st EXCEPT !.invoked = Append(@, st.timers[i].callback)],
                                 script),
                    wParam, script)
    ELSE timer_loop(i + 1, st, wParam, script)

\* WndProc, WM_TIMER, dispatched by gui_run; script is what the timer callbacks do, and
\* ret the sequence of callbacks called
WndProc_WM_TIMER(hwnd, wParam, script) ==
    /\ IsNextMessage("WM_TIMER", hwnd, wParam)
    /\ (\E k \in 1 .. Len(script) : script[k].op = "set") => g_timer_id_counter <= MaxTimerId
    /\ LET st == timer_loop(1, [timers |-> g_timers, counter |-> g_timer_id_counter,
                                issued |-> issued, invoked |-> <<>>],
                            wParam, script)
       IN  /\ g_timers' = st.timers
           /\ g_timer_id_counter' = st.counter
           /\ issued' = st.issued
           /\ call' = [name |-> "WM_TIMER", args |-> <<wParam, script>>,
                       ret |-> st.invoked]
    /\ msg_queue' = Tail(msg_queue)
    /\ setpos' = <<>>
    /\ UNCHANGED <<winVars, g_main_window, callbackVars, canvasVars, menuVars,
                   layoutVars, scale_log, fontVars, quit_posted, gui_run_active, textVars>>

\* what the timer callbacks of the inputs do: nothing, kill their own timer, kill
\* another timer, start a timer, or kill their own and start another
CallbackScripts(wParam) ==
    {<<>>,
     <<[op |-> "set", callback |-> 2]>>,
     <<[op |-> "kill", id |-> wParam], [op |-> "set", callback |-> 2]>>}
    \cup {<<[op |-> "kill", id |-> id]>> : id \in {1, 2, wParam}}

\* gui_on_close(handle, callback)
gui_on_close(handle, callback) == register_callback(handle, "CB_CLOSE", callback)

\* a WM_CLOSE handler that keeps the window when the callback returns non-zero
WndProc_WM_CLOSE_inverted(hwnd, cb_ret) ==
    /\ IsNextMessage("WM_CLOSE", hwnd, 0)
    /\ LET cb == find_callback(hwnd, "CB_CLOSE")
       IN  /\ IF cb # NULL /\ cb_ret # 0
              THEN /\ msg_queue' = Tail(msg_queue)
                   /\ UNCHANGED <<windows, win_dpi, client, child_windows, quit_posted>>
              ELSE DestroyWindow(hwnd, Tail(msg_queue))
           /\ call' = [name |-> "WM_CLOSE", args |-> <<hwnd, cb_ret>>, ret |-> cb]
    /\ setpos' = <<>>
    /\ UNCHANGED <<has_GetDpiForWindow, g_main_window, callbackVars, timerVars, g_canvas,
                   g_control_id, menuVars, layoutVars, scale_log, fontVars,
                   gui_run_active, textVars>>

\* WndProc, WM_CLOSE, dispatched by gui_run; cb_ret is what the close callback returns
\* when there is one, and ret the callback that was called.
WndProc_WM_CLOSE(hwnd, cb_ret) ==
    /\ IsNextMessage("WM_CLOSE", hwnd, 0)
    /\ LET cb == find_callback(hwnd, "CB_CLOSE")
       IN  /\ IF cb # NULL /\ cb_ret = 0
              THEN /\ msg_queue' = Tail(msg_queue)
                   /\ UNCHANGED <<windows, win_dpi, client, child_windows, quit_posted>>
              ELSE DestroyWindow(hwnd, Tail(msg_queue))
           /\ call' = [name |-> "WM_CLOSE", args |-> <<hwnd, cb_ret>>, ret |-> cb]
    /\ setpos' = <<>>
    /\ UNCHANGED <<has_GetDpiForWindow, g_main_window, callbackVars, timerVars, g_canvas,
                   g_control_id, menuVars, layoutVars, scale_log, fontVars,
                   gui_run_active, textVars>>

\* Timers that elapse while gui_run dispatches, and callbacks that start and kill timers
NextTimerQueue ==
    \/ gui_window(100, 75, 96, 1)
    \/ gui_set_timer(1000, 1)
    \/ \E timer_id \in 1 .. MaxTimerId : gui_kill_timer(timer_id)
    \/ \E id \in 1 .. MaxTimerId : TimerElapses(id)
    \/ gui_run
    \/ \E wParam \in 1 .. MaxTimerId :
           \E script \in CallbackScripts(wParam) :
               WndProc_WM_TIMER(g_main_window, wParam, script)

SpecTimerQueue == InitWithDpiApi /\ [][NextTimerQueue]_vars

\* Windows that are closed by the user or by the program while gui_run dispatches
NextLoop ==
    \/ \E hwnd \in HWNDS : gui_window(100, 75, 96, hwnd)
    \/ \E handle \in windows : gui_on_close(handle, 1)
    \/ \E hwnd \in windows : UserClosesWindow(hwnd)
    \/ \E hwnd \in windows : gui_close(hwnd)
    \/ gui_quit
    \/ gui_run
    \/ \E hwnd \in HWNDS, cb_ret \in {0, 1} : WndProc_WM_CLOSE(hwnd, cb_ret)
    \/ gui_run_return

SpecLoop == InitWithDpiApi /\ [][NextLoop]_vars

\* Windows that are created, with and without success, and closed, and timers started
\* and killed before and after
NextMainWindow ==
    \/ \E hwnd \in {NULL} \cup HWNDS : gui_window(100, 75, 96, hwnd)
    \/ \E hwnd \in windows : gui_close(hwnd)
    \/ gui_set_timer(1000, 1)
    \/ \E timer_id \in 1 .. MaxTimerId : gui_kill_timer(timer_id)

SpecMainWindow == InitWithDpiApi /\ [][NextMainWindow]_vars

(***************************************************************************)
(* The layout manager: gui_vbox, gui_hbox, gui_grid, gui_layout_add,       *)
(* gui_layout_apply and apply_layout.  A Layout pointer is the index of    *)
(* the layout in g_layouts; child_count is Len(children).                  *)
(***************************************************************************)
\* total_spacing counted once per child instead of once per gap
total_spacing_per_child(count, spacing) == count * spacing

\* total_spacing, total_h_spacing, total_v_spacing: the gaps between count cells
total_spacing(count, spacing) == (count - 1) * spacing

\* a row count that is not rounded up but always one more than the quotient
grid_rows_one_more(child_count, cols) == CDiv(child_count, cols) + 1

\* rows = (child_count + cols - 1) / cols
grid_rows(child_count, cols) == CDiv(child_count + cols - 1, cols)

\* row and column exchanged
grid_row_as_col(i, cols) == CMod(i, cols)

\* row = i / cols, col = i % cols
grid_row(i, cols) == CDiv(i, cols)
grid_col(i, cols) == CMod(i, cols)

\* a column count whose sign is dropped instead of being replaced by 1
clamped_cols_magnitude(grid_cols) == IF grid_cols = 0 THEN 1 ELSE Abs(grid_cols)

\* cols = layout->grid_cols; if (cols <= 0) cols = 1;
clamped_cols(grid_cols) == IF grid_cols <= 0 THEN 1 ELSE grid_cols

\* apply_layout(layout) for layout = &layouts[layout_ptr] (or NULL): the SetWindowPos
\* calls it makes, in order.  GetClientRect gives the parent's client area.
apply_layout(layouts, layout_ptr) ==
    IF layout_ptr = NULL THEN <<>>
    ELSE
    LET layout == layouts[layout_ptr]
        child_count == Len(layout.children)
        width == client[layout.parent][1]
        height == client[layout.parent][2]
        content_width == width - 2 * layout.margin
        content_height == height - 2 * layout.margin
    IN  IF child_count = 0 THEN <<>>
        ELSE IF layout.type = "LAYOUT_VBOX" THEN
            LET child_height ==
                    CDiv(content_height - total_spacing(child_count, layout.spacing),
                         child_count)
            IN  [i \in 1 .. child_count |->
                    [hwnd |-> layout.children[i],
                     x |-> layout.margin,
                     y |-> layout.margin + (i - 1) * (child_height + layout.spacing),
                     cx |-> content_width,
                     cy |-> child_height]]
        ELSE IF layout.type = "LAYOUT_HBOX" THEN
            LET child_width ==
                    CDiv(content_width - total_spacing(child_count, layout.spacing),
                         child_count)
            IN  [i \in 1 .. child_count |->
                    [hwnd |-> layout.children[i],
                     x |-> layout.margin + (i - 1) * (child_width + layout.spacing),
                     y |-> layout.margin,
                     cx |-> child_width,
                     cy |-> content_height]]
        ELSE
            LET cols == clamped_cols(layout.grid_cols)
                rows == grid_rows(child_count, cols)
                cell_width ==
                    CDiv(content_width - total_spacing(cols, layout.spacing), cols)
                cell_height ==
                    CDiv(content_height - total_spacing(rows, layout.spacing), rows)
            IN  [i \in 1 .. child_count |->
                    [hwnd |-> layout.children[i],
                     x |-> layout.margin
                              + grid_col(i - 1, cols) * (cell_width + layout.spacing),
                     y |-> layout.margin
                              + grid_row(i - 1, cols) * (cell_height + layout.spacing),
                     cx |-> cell_width,
                     cy |-> cell_height]]

\* The common body of gui_vbox, gui_hbox and gui_grid
new_layout(name, parent, type, margin, spacing, grid_cols) ==
    /\ IF g_layout_count >= MAX_LAYOUTS
       THEN /\ UNCHANGED g_layouts
            /\ call' = [name |-> name, args |-> <<parent, grid_cols, margin, spacing>>,
                        ret |-> NULL]
       ELSE /\ g_layouts' = Append(g_layouts,
                                   [parent |-> parent, type |-> type, margin |-> margin,
                                    spacing |-> spacing, grid_cols |-> grid_cols,
                                    children |-> <<>>])
            /\ call' = [name |-> name, args |-> <<parent, grid_cols, margin, spacing>>,
                        ret |-> g_layout_count + 1]
    /\ setpos' = <<>>
    /\ UNCHANGED <<winVars, g_main_window, callbackVars, timerVars, canvasVars, menuVars,
                   scale_log,
                   fontVars, loopVars, textVars>>

gui_vbox(parent, margin, spacing) ==
    new_layout("gui_vbox", parent, "LAYOUT_VBOX", margin, spacing, 0)
gui_hbox(parent, margin, spacing) ==
    new_layout("gui_hbox", parent, "LAYOUT_HBOX", margin, spacing, 0)
gui_grid(parent, cols, margin, spacing) ==
    new_layout("gui_grid", parent, "LAYOUT_GRID", margin, spacing, cols)

\* A gui_layout_add whose capacity check is off by one
gui_layout_add_off_by_one(layout_ptr, child) ==
    /\ IF layout_ptr = NULL \/ Len(g_layouts[layout_ptr].children) > MAX_LAYOUT_CHILDREN
       THEN UNCHANGED g_layouts /\ setpos' = <<>>
       ELSE /\ g_layouts' = [g_layouts EXCEPT ![layout_ptr].children = Append(@, child)]
            /\ setpos' = apply_layout(g_layouts', layout_ptr)
    /\ call' = [name |-> "gui_layout_add", args |-> <<layout_ptr, child>>, ret |-> 0]
    /\ UNCHANGED <<winVars, g_main_window, callbackVars, timerVars, canvasVars, menuVars,
                   scale_log,
                   fontVars, loopVars, textVars>>

\* gui_layout_add(layout_ptr, child)
gui_layout_add(layout_ptr, child) ==
    /\ IF layout_ptr = NULL \/ Len(g_layouts[layout_ptr].children) >= MAX_LAYOUT_CHILDREN
       THEN UNCHANGED g_layouts /\ setpos' = <<>>
       ELSE /\ g_layouts' = [g_layouts EXCEPT ![layout_ptr].children = Append(@, child)]
            /\ setpos' = apply_layout(g_layouts', layout_ptr)
    /\ call' = [name |-> "gui_layout_add", args |-> <<layout_ptr, child>>, ret |-> 0]
    /\ UNCHANGED <<winVars, g_main_window, callbackVars, timerVars, canvasVars, menuVars,
                   scale_log,
                   fontVars, loopVars, textVars>>

\* gui_layout_apply(layout_ptr)
gui_layout_apply(layout_ptr) ==
    /\ setpos' = apply_layout(g_layouts, layout_ptr)
    /\ call' = [name |-> "gui_layout_apply", args |-> <<layout_ptr>>, ret |-> 0]
    /\ UNCHANGED <<winVars, g_main_window, callbackVars, timerVars, canvasVars, menuVars,
                   layoutVars, scale_log,
                   fontVars, loopVars, textVars>>

\* WndProc, WM_SIZE: the window was resized (LOWORD, HIWORD of lParam are the new client
\* size); ret is the resize callback that was invoked.
WndProc_WM_SIZE(hwnd, width, height) ==
    /\ hwnd \in windows
    /\ client[hwnd] # <<width, height>>
    /\ client' = [client EXCEPT ![hwnd] = <<width, height>>]
    /\ call' = [name |-> "WM_SIZE", args |-> <<hwnd, width, height>>,
                ret |-> find_callback(hwnd, "CB_RESIZE")]
    /\ setpos' = <<>>
    /\ UNCHANGED <<windows, win_dpi, has_GetDpiForWindow, g_main_window, callbackVars,
                   timerVars, canvasVars, menuVars, layoutVars, scale_log,
                   fontVars, loopVars, textVars>>

\* the layout pointers the API has returned, and NULL
LayoutPtrs == {NULL} \cup (1 .. g_layout_count)

\* the client sizes of the parent window, <<width, height>>: a minimised one and a usual one
ClientSizes == {<<0, 0>>, <<100, 47>>}

\* The environment of the layout specifications adds no control twice in a row.
NotLastChild(layout_ptr, child) ==
    IF layout_ptr = NULL THEN TRUE
    ELSE IF g_layouts[layout_ptr].children = <<>> THEN TRUE
    ELSE g_layouts[layout_ptr].children[Len(g_layouts[layout_ptr].children)] # child

\* The first layout is of any kind; the later ones are vertical boxes without margin.
NextLayout ==
    \/ \E size \in ClientSizes, hwnd \in {NULL, 1} : gui_window(size[1], size[2], 96, hwnd)
    \/ \E size \in ClientSizes : WndProc_WM_SIZE(1, size[1], size[2])
    \/ \E parent \in windows, ms \in {<<0, 0>>, <<10, 5>>} :
           /\ g_layout_count = 0 \/ ms = <<0, 0>>
           /\ gui_vbox(parent, ms[1], ms[2])
    \/ \E parent \in windows : g_layout_count = 0 /\ gui_hbox(parent, 10, 5)
    \/ \E parent \in windows, cols \in {-2, 0, 1, 3} :
           g_layout_count = 0 /\ gui_grid(parent, cols, 10, 5)
    \/ \E layout_ptr \in LayoutPtrs, child \in Controls :
           NotLastChild(layout_ptr, child) /\ gui_layout_add(layout_ptr, child)
    \/ \E layout_ptr \in LayoutPtrs : gui_layout_apply(layout_ptr)

SpecLayout == InitWithDpiApi /\ [][NextLayout]_vars

(***************************************************************************)
(* Every registry filled to its capacity, with one input of each kind.     *)
(***************************************************************************)
NextRegistries ==
    \/ \E hwnd \in {NULL, 1} : gui_window(100, 75, 96, hwnd)
    \/ gui_on_click(11, 1)
    \/ gui_set_timer(1000, 1)
    \/ gui_canvas(1, 0, 0, 10, 10, g_control_id)
    \/ gui_menu_item(1, 1)
    \/ \E parent \in windows : gui_vbox(parent, 0, 0)
    \/ \E layout_ptr \in {NULL, 1} \cap LayoutPtrs : gui_layout_add(layout_ptr, 11)

SpecRegistries == InitWithDpiApi /\ [][NextRegistries]_vars

(***************************************************************************)
(* What the scaling claims speak of, stated without the code's arithmetic. *)
(***************************************************************************)
\* Whether v * dpi / 96, rounded to the nearest integer, fits an int (dpi >= 0):
\* |v| * dpi + 48 < 96 * (INT_MAX + 1), that is |v| <= (96 * INT_MAX + 47) / dpi.
FitsInt(v, dpi) ==
    \/ dpi <= 96
    \/ Abs(v) <= 96 * (INT_MAX \div dpi) + (96 * (INT_MAX % dpi) + 47) \div dpi

\* |v| * dpi - 96 * |ret|, as a set: empty when the difference is beyond 96 (dpi >= 0).
\* With |v| = 96 * qa + ra the difference is ra * dpi - 96 * k for k = |ret| - qa * dpi.
MagErr(v, dpi, ret) ==
    LET A == Abs(v)
        R == Abs(ret)
        qa == A \div 96
        ra == A % 96
    IN  IF dpi = 0 THEN (IF R = 0 THEN {0} ELSE {})
        ELSE {ra * dpi - 96 * k :
                 k \in {k \in 0 .. dpi :
                           R >= k /\ (R - k) % dpi = 0 /\ (R - k) \div dpi = qa}}

\* ret has the sign of v * dpi (dpi >= 0)
SignOK(v, dpi, ret) == ret = 0 \/ ((ret < 0) = (v < 0) /\ dpi > 0)

\* ret is v * dpi / 96 rounded to the nearest integer, a tie rounded up (toward +infinity)
RoundsHalfUp(v, dpi, ret) ==
    /\ SignOK(v, dpi, ret)
    /\ \E E \in MagErr(v, dpi, ret) :
          IF v >= 0 THEN -48 <= E /\ E < 48 ELSE -48 < E /\ E <= 48

\* ret is v * dpi / 96 rounded to the nearest integer, a tie rounded away from zero
RoundsHalfAway(v, dpi, ret) ==
    /\ SignOK(v, dpi, ret)
    /\ \E E \in MagErr(v, dpi, ret) : -48 <= E /\ E < 48

TimerIds(timers) == {timers[i].id : i \in DOMAIN timers}

\* C6: gui_kill_timer(id) for an id present in the timer table removes exactly that
\* one entry (g_timer_count decreases by 1) and the remaining entries keep their
\* relative order.
C6_KillRemovesOneKeepsOrder ==
    [][(call'.name = "gui_kill_timer" /\ call'.args[1] \in TimerIds(g_timers)) =>
          /\ Len(g_timers') = Len(g_timers) - 1
          /\ \E k \in DOMAIN g_timers :
                /\ g_timers[k].id = call'.args[1]
                /\ \A j \in 1 .. k - 1 : g_timers'[j] = g_timers[j]
                /\ \A j \in k .. Len(g_timers') : g_timers'[j] = g_timers[j + 1]]_vars

\* Timer 2 was killed out of the table of timers 1, 2, 3: 1 and 3 remain in this order.
C6_Witness ==
    /\ call.name = "gui_kill_timer"
    /\ call.args[1] = 2
    /\ Len(g_timers) = 2
    /\ g_timers[1].id = 1 /\ g_timers[2].id = 3
    /\ g_timer_id_counter = 4

\* C7 as stated: every call gui_set_timer(interval, cb) returns a positive id, and a
\* later call returns an id strictly greater than every id returned before it.
C7_EveryCallReturnsGreaterId ==
    [][call'.name = "gui_set_timer" =>
          (call'.ret > 0 /\ \A r \in issued : call'.ret > r)]_vars

\* C7, amended: a gui_set_timer call made while the main window exists and fewer than
\* MAX_TIMERS timers are live returns a positive id strictly greater than every value
\* returned before it; any other call returns 0.
C7_RegisteringCallReturnsGreaterId ==
    [][call'.name = "gui_set_timer" =>
          IF g_main_window # NULL /\ Len(g_timers) < MAX_TIMERS
          THEN call'.ret > 0 /\ \A r \in issued : call'.ret > r
          ELSE call'.ret = 0]_vars

\* The third registering call returned 3 after 1, 2 and a refused call's 0.
C7_Witness ==
    /\ call.name = "gui_set_timer"
    /\ call.ret = 3
    /\ issued = {0, 1, 2, 3}

\* C8: the ids of the entries in the timer table are pairwise distinct, and an id handed
\* out is never the id of an entry that is still live.
C8_IdsDistinctNeverReusedLive ==
    /\ [](\A i, j \in DOMAIN g_timers : g_timers[i].id = g_timers[j].id => i = j)
    /\ [][(call'.name = "gui_set_timer" /\ call'.ret # 0) =>
             call'.ret \notin TimerIds(g_timers)]_vars

\* An id is handed out after an earlier timer was killed, while others are live.
C8_Witness ==
    /\ call.name = "gui_set_timer"
    /\ call.ret = 4
    /\ Len(g_timers) = 3
    /\ TimerIds(g_timers) = {1, 3, 4}

(***************************************************************************)
(* The callback claims.                                                    *)
(***************************************************************************)
\* The callback of the latest entry registered for (hwnd, type), NULL when there is none
MostRecentCallback(hwnd, type) ==
    LET hits == {i \in DOMAIN g_callbacks :
                    g_callbacks[i].hwnd = hwnd /\ g_callbacks[i].type = type}
    IN  IF hits = {} THEN NULL
        ELSE g_callbacks[CHOOSE i \in hits : \A j \in hits : j <= i].callback

\* C9: when several callbacks have been registered for the same (handle, event kind),
\* find_callback, and therefore the dispatch of an event, returns the most recently
\* registered one; when none has been registered it returns NULL.
C9_FindReturnsMostRecent ==
    /\ \A h \in Controls, t \in {"CB_CLICK", "CB_CHANGE", "CB_SELECT"} :
          find_callback(h, t) = MostRecentCallback(h, t)
    /\ (call.name = "WM_COMMAND" /\ call.args[2] = BN_CLICKED) =>
          call.ret = MostRecentCallback(call.args[1], "CB_CLICK")

(***************************************************************************)
(* The registry claim.                                                     *)
(***************************************************************************)
\* C10: for each fixed-capacity registry (callbacks, timers, canvases, menu callbacks,
\* layouts, children of a layout), a registration attempted when the registry is full
\* leaves the registry's entries and count unchanged, and signals no error other than
\* a 0/NULL return value.
C10_FullRegistryDropsRegistration ==
    [][/\ (call'.name = "register_callback" /\ Len(g_callbacks) >= MAX_CALLBACKS)
             => (g_callbacks' = g_callbacks /\ call'.ret = 0)
       /\ (call'.name = "gui_set_timer" /\ Len(g_timers) >= MAX_TIMERS)
             => (g_timers' = g_timers /\ call'.ret = 0)
       /\ (call'.name = "gui_canvas" /\ Len(g_canvas) >= MAX_CANVAS)
             => (g_canvas' = g_canvas /\ call'.ret = NULL)
       /\ (call'.name = "gui_menu_item" /\ Len(g_menu_callbacks) >= MAX_MENU_CALLBACKS)
             => (g_menu_callbacks' = g_menu_callbacks /\ call'.ret = g_menu_id)
       /\ (call'.name \in {"gui_vbox", "gui_hbox", "gui_grid"}
              /\ Len(g_layouts) >= MAX_LAYOUTS)
             => (g_layouts' = g_layouts /\ call'.ret = NULL)
       /\ (call'.name = "gui_layout_add"
              /\ IF call'.args[1] = NULL THEN FALSE
                 ELSE Len(g_layouts[call'.args[1]].children) >= MAX_LAYOUT_CHILDREN)
             => (g_layouts' = g_layouts /\ setpos' = <<>> /\ call'.ret = 0)]_vars

\* A menu item was added while the menu callback table was full: the table holds the
\* earlier items only, and every other registry is full as well.
C10_Witness ==
    /\ call.name = "gui_menu_item"
    /\ Len(g_menu_callbacks) = MAX_MENU_CALLBACKS
    /\ g_menu_callbacks[MAX_MENU_CALLBACKS].id < call.ret
    /\ Len(g_callbacks) = MAX_CALLBACKS
    /\ Len(g_timers) = MAX_TIMERS
    /\ Len(g_canvas) = MAX_CANVAS
    /\ Len(g_layouts) = MAX_LAYOUTS
    /\ Len(g_layouts[1].children) = MAX_LAYOUT_CHILDREN

(***************************************************************************)
(* The layout claims.  They read the SetWindowPos calls of the last call,  *)
(* which applied the layout call.args[1].                                  *)
(***************************************************************************)
\* The last call ran apply_layout on a layout with at least one child
LayoutApplied ==
    IF call.name \notin {"gui_layout_add", "gui_layout_apply"} THEN FALSE
    ELSE IF call.args[1] = NULL THEN FALSE
    ELSE LET n == Len(g_layouts[call.args[1]].children)
         IN  /\ n >= 1
             /\ call.name = "gui_layout_add" => (n < MAX_LAYOUT_CHILDREN \/ setpos # <<>>)

AppliedLayout == g_layouts[call.args[1]]

\* The content extent of the applied layout along its stack axis, and each child's extent
StackExtent ==
    (IF AppliedLayout.type = "LAYOUT_VBOX" THEN client[AppliedLayout.parent][2]
     ELSE client[AppliedLayout.parent][1]) - 2 * AppliedLayout.margin
ChildExtent(i) == IF AppliedLayout.type = "LAYOUT_VBOX" THEN setpos[i].cy ELSE setpos[i].cx

StackFits(N, S, g) ==
    /\ Len(setpos) = N
    /\ \A i \in 1 .. N : ChildExtent(i) = ChildExtent(1)
    /\ N * ChildExtent(1) + (N - 1) * g <= S
    /\ S - (N * ChildExtent(1) + (N - 1) * g) <= N - 1

\* C1 as stated: for every stack layout with N >= 1 children, content extent S and
\* spacing g, N * child_extent + (N-1)*g <= S and the shortfall is at most N-1.
C1_StackFitsAlways ==
    (LayoutApplied /\ AppliedLayout.type \in {"LAYOUT_VBOX", "LAYOUT_HBOX"}) =>
        StackFits(Len(AppliedLayout.children), StackExtent, AppliedLayout.spacing)

\* C1, amended: the same for the stack layouts whose content extent holds the gaps,
\* S - (N-1)*g >= 0.
C1_StackFitsWhenGapsFit ==
    (/\ LayoutApplied
     /\ AppliedLayout.type \in {"LAYOUT_VBOX", "LAYOUT_HBOX"}
     /\ StackExtent - (Len(AppliedLayout.children) - 1) * AppliedLayout.spacing >= 0) =>
        StackFits(Len(AppliedLayout.children), StackExtent, AppliedLayout.spacing)

\* A vertical box of 3 children, margin 10 and spacing 5 in a client area 47 high:
\* S = 27, each child is 5 high and the shortfall is 2 = N - 1.
C1_Witness ==
    /\ LayoutApplied
    /\ AppliedLayout.type = "LAYOUT_VBOX"
    /\ Len(AppliedLayout.children) = 3
    /\ StackExtent = 27
    /\ AppliedLayout.spacing = 5
    /\ Len(setpos) = 3
    /\ setpos[3].cy = 5

\* C2: in a grid layout with C columns and N children, the child added i-th (0-based)
\* is placed at row i / C and column i % C: x = margin + (i % C)*(cell_width + spacing),
\* y = margin + (i / C)*(cell_height + spacing).
C2_GridRowMajor ==
    (LayoutApplied /\ AppliedLayout.type = "LAYOUT_GRID" /\ AppliedLayout.grid_cols >= 1) =>
        LET C == AppliedLayout.grid_cols
            N == Len(AppliedLayout.children)
        IN  /\ Len(setpos) = N
            /\ \A i \in 0 .. N - 1 :
                  /\ setpos[i + 1].hwnd = AppliedLayout.children[i + 1]
                  /\ setpos[i + 1].x = AppliedLayout.margin
                        + (i % C) * (setpos[i + 1].cx + AppliedLayout.spacing)
                  /\ setpos[i + 1].y = AppliedLayout.margin
                        + (i \div C) * (setpos[i + 1].cy + AppliedLayout.spacing)

\* gui_grid(parent, 3, 10, 5) with 7 children in a 100 x 47 client area: the cells are
\* 23 x 5; child 5 is in row 1, column 2 and child 6 in row 2, column 0.
C2_Witness ==
    /\ LayoutApplied
    /\ AppliedLayout.type = "LAYOUT_GRID"
    /\ AppliedLayout.grid_cols = 3
    /\ Len(AppliedLayout.children) = 7
    /\ Len(setpos) = 7
    /\ setpos[6].x = 66 /\ setpos[6].y = 20
    /\ setpos[7].x = 10 /\ setpos[7].y = 30
    /\ setpos[6].hwnd # setpos[7].hwnd

\* The least r with r * b >= a: the ceiling of a / b (a >= 0, b >= 1)
CeilQuot(a, b) == CHOOSE r \in 0 .. a : r * b >= a /\ \A r2 \in 0 .. a : r2 * b >= a => r <= r2

\* a / b truncated: the q of the sign of a with |q| * b <= |a| < (|q| + 1) * b (b >= 1)
TruncQuot(a, b) ==
    CHOOSE q \in -Abs(a) .. Abs(a) :
        /\ Abs(q) * b <= Abs(a)
        /\ Abs(a) < (Abs(q) + 1) * b
        /\ q = 0 \/ (q < 0) = (a < 0)

\* C3: in a grid layout with N >= 1 children the row count is ceil(N / columns), and
\* every child receives the cell size
\* cell_width = (content_width - (columns-1)*spacing) / columns,
\* cell_height = (content_height - (rows-1)*spacing) / rows, both truncated.
C3_GridCellSize ==
    (LayoutApplied /\ AppliedLayout.type = "LAYOUT_GRID" /\ AppliedLayout.grid_cols >= 1) =>
        LET columns == AppliedLayout.grid_cols
            N == Len(AppliedLayout.children)
            rows == CeilQuot(N, columns)
            content_width == client[AppliedLayout.parent][1] - 2 * AppliedLayout.margin
            content_height == client[AppliedLayout.parent][2] - 2 * AppliedLayout.margin
        IN  /\ Len(setpos) = N
            /\ \A i \in 1 .. N :
                  /\ setpos[i].cx =
                        TruncQuot(content_width - (columns - 1) * AppliedLayout.spacing,
                                  columns)
                  /\ setpos[i].cy =
                        TruncQuot(content_height - (rows - 1) * AppliedLayout.spacing, rows)

\* A grid of 3 columns with 4 children in a 100 x 47 client area, margin 10, spacing 5:
\* 2 rows, cells of 23 x 11.
C3_Witness ==
    /\ LayoutApplied
    /\ AppliedLayout.type = "LAYOUT_GRID"
    /\ AppliedLayout.grid_cols = 3
    /\ Len(AppliedLayout.children) = 4
    /\ Len(setpos) = 4
    /\ setpos[4].cx = 23 /\ setpos[4].cy = 11

\* C11: after any sequence of gui_vbox / gui_hbox / gui_grid calls, the layout registry
\* holds at most one layout entry per parent handle.
C11_OneLayoutPerParent ==
    \A i, j \in 1 .. Len(g_layouts) : g_layouts[i].parent = g_layouts[j].parent => i = j

\* C12: applying a layout with zero children repositions no control, and a grid layout
\* created with a column count <= 0 is laid out exactly as a grid with 1 column.
C12_EmptyLayoutAndClampedColumns ==
    /\ (IF call.name = "gui_layout_apply" THEN call.args[1] # NULL ELSE FALSE)
          => (AppliedLayout.children = <<>> => setpos = <<>>)
    /\ (LayoutApplied /\ AppliedLayout.type = "LAYOUT_GRID" /\ AppliedLayout.grid_cols <= 0)
          => setpos = apply_layout([g_layouts EXCEPT ![call.args[1]].grid_cols = 1],
                                   call.args[1])

\* A grid created with -2 columns holds 3 children in a 100 x 47 client area (margin 10,
\* spacing 5): one column 80 wide, the third child in the third row.
C12_Witness ==
    /\ LayoutApplied
    /\ AppliedLayout.type = "LAYOUT_GRID"
    /\ AppliedLayout.grid_cols = -2
    /\ Len(setpos) = 3
    /\ setpos[3].x = 10 /\ setpos[3].y = 30 /\ setpos[3].cx = 80 /\ setpos[3].cy = 5

(***************************************************************************)
(* The canvas claims.                                                      *)
(***************************************************************************)
DrawingPrimitives ==
    {"gui_canvas_rect", "gui_canvas_fill_rect", "gui_canvas_line", "gui_canvas_circle",
     "gui_canvas_fill_circle", "gui_canvas_text", "gui_canvas_clear"}

HasCanvasEntry(handle) == \E i \in 1 .. Len(g_canvas) : g_canvas[i].hwnd = handle

\* C13: for a handle that has no entry in the canvas registry, every drawing primitive
\* returns without changing any canvas's back buffer or the registry.
C13_DrawingOnUnknownHandleIsNoOp ==
    [][(call'.name \in DrawingPrimitives /\ ~HasCanvasEntry(call'.args[1]))
           => g_canvas' = g_canvas]_vars

\* gui_canvas_text was called with a handle other than NULL that has no entry, while
\* the registry holds a canvas that was drawn on.
C13_Witness ==
    /\ call.name = "gui_canvas_text"
    /\ call.args[1] # NULL
    /\ ~HasCanvasEntry(call.args[1])
    /\ \E i \in 1 .. Len(g_canvas) : g_canvas[i].memDC = <<"gui_canvas_line">>

\* C18: the canvas registry supports explicit removal: when a canvas is destroyed its
\* entry is deleted from g_canvas and the later entries are shifted left in their
\* order, so that the slot is available for a new gui_canvas call.
C18_DestroyedCanvasLeavesRegistry ==
    [][(call'.name = "gui_close" /\ HasCanvasEntry(call'.args[1]))
           => LET i == CHOOSE k \in 1 .. Len(g_canvas) : g_canvas[k].hwnd = call'.args[1]
              IN  g_canvas' = [j \in 1 .. Len(g_canvas) - 1 |->
                                   IF j < i THEN g_canvas[j] ELSE g_canvas[j + 1]]]_vars

(***************************************************************************)
(* The message loop claims.                                                *)
(***************************************************************************)
\* gui_run dispatched a message of the kind in this step
Dispatched(msg) == call'.name = msg /\ Len(msg_queue') < Len(msg_queue)

\* gui_kill_timer has returned for the id: it was issued and is in the table no more
Killed(id) == id \in issued /\ id \notin TimerIds(g_timers)

\* C16 as stated: a timer's callback is invoked once more after gui_kill_timer(id) has
\* returned, when a WM_TIMER message for that id was queued at the time of the kill and
\* is dispatched afterwards.
C16_QueuedTimerFiresAfterKill ==
    [][(Dispatched("WM_TIMER") /\ Killed(call'.args[1])) => call'.ret # <<>>]_vars

\* C16, amended: a WM_TIMER message dispatched for a killed timer invokes no callback,
\* and one dispatched for a live timer invokes that timer's callback and no other.
C16_KilledTimerNeverFires ==
    [][Dispatched("WM_TIMER") =>
          IF Killed(call'.args[1]) THEN call'.ret = <<>>
          ELSE \E i \in 1 .. Len(g_timers) :
                  g_timers[i].id = call'.args[1] /\ call'.ret = <<g_timers[i].callback>>]_vars

\* A WM_TIMER message was dispatched for a timer that was killed while the message was
\* queued, with another timer still live; no callback was called.
C16_Witness ==
    /\ call.name = "WM_TIMER"
    /\ Killed(call.args[1])
    /\ call.ret = <<>>
    /\ g_timers # <<>>

\* C17: gui_run returns only after a quit has been posted, which happens only through
\* gui_quit or the destruction of the main window; destroying any other window does not
\* end the loop.
C17_RunReturnsOnlyAfterQuit ==
    [][/\ (gui_run_active /\ ~gui_run_active') => quit_posted
       /\ (~quit_posted /\ quit_posted') =>
             \/ call'.name = "gui_quit"
             \/ g_main_window \in windows /\ g_main_window \notin windows'
       /\ \A hwnd \in windows \ windows' :
             hwnd # g_main_window =>
                 (quit_posted' = quit_posted /\ gui_run_active' = gui_run_active)]_vars

\* gui_run has returned after the main window was destroyed, another window being open.
C17_Witness ==
    /\ call.name = "gui_run_return"
    /\ ~gui_run_active
    /\ g_main_window # NULL
    /\ g_main_window \notin windows
    /\ windows # {}

\* a close callback is registered for the window
HasCloseCallback(hwnd) ==
    \E i \in 1 .. Len(g_callbacks) :
        g_callbacks[i].hwnd = hwnd /\ g_callbacks[i].type = "CB_CLOSE"

\* C19: on WM_CLOSE for a window, if a close callback is registered for it and returns
\* 0, the window is not destroyed and no quit is posted; if none is registered or it
\* returns non-zero, the window is destroyed, and destruction of the main window posts
\* the quit message.
C19_CloseCallbackDecides ==
    [][Dispatched("WM_CLOSE") =>
          LET hwnd == call'.args[1]
              cb_ret == call'.args[2]
          IN  IF HasCloseCallback(hwnd) /\ cb_ret = 0
              THEN windows' = windows /\ quit_posted' = quit_posted
              ELSE /\ hwnd \notin windows'
                   /\ hwnd = g_main_window => quit_posted'
                   /\ hwnd # g_main_window => quit_posted' = quit_posted]_vars

\* The close callback of the main window returned 0: the window is still open and
\* gui_run still dispatches.
C19_Witness ==
    /\ call.name = "WM_CLOSE"
    /\ call.args[1] = g_main_window
    /\ call.args[2] = 0
    /\ call.ret # NULL
    /\ g_main_window \in windows
    /\ ~quit_posted
    /\ gui_run_active

(***************************************************************************)
(* The selection claim.  Control 11 is a listbox and control 12 a          *)
(* combobox.                                                               *)
(***************************************************************************)
ListBoxes == {11}
ComboBoxes == {12}

\* C20: when a combobox reports a selection change (WM_COMMAND with notification code
\* CBN_SELCHANGE), the callback registered for that control with gui_on_change is
\* invoked, whereas a listbox selection change (LBN_SELCHANGE) invokes the callback
\* registered with gui_on_select.
C20_ComboboxChangeListboxSelect ==
    call.name = "WM_COMMAND" =>
        /\ (call.args[1] \in ComboBoxes /\ call.args[2] = CBN_SELCHANGE)
              => call.ret = find_callback(call.args[1], "CB_CHANGE")
        /\ (call.args[1] \in ListBoxes /\ call.args[2] = LBN_SELCHANGE)
              => call.ret = find_callback(call.args[1], "CB_SELECT")

(***************************************************************************)
(* The font claim.                                                         *)
(***************************************************************************)
\* C15: whenever creation of the scaled font fails (in gui_init, in gui_window, or
\* while handling WM_DPICHANGED), the library falls back to a usable font, so that
\* after gui_init the current font g_hFont is never NULL.
C15_FontNeverNullAfterInit == g_initialized # 0 => g_hFont # NULL

(***************************************************************************)
(* The text claim.                                                         *)
(***************************************************************************)
\* C14: for every UTF-8 string s (including multi-byte characters, of any length),
\* gui_set_text(h, s) followed by gui_get_text(h) returns exactly the bytes of s.
C14_TextRoundTrip ==
    [][(/\ call.name = "gui_set_text"
        /\ call'.name = "gui_get_text"
        /\ call'.args[1] = call.args[1]) => call'.ret = call.args[2]]_vars

(***************************************************************************)
(* The timer dispatch claim.                                               *)
(***************************************************************************)
\* C21: dispatching one WM_TIMER message with id k invokes the callback of the live
\* timer with id k exactly once and invokes no other timer's callback, even when the
\* invoked callback itself calls gui_kill_timer (on its own or another id) or
\* gui_set_timer during the dispatch loop; if no live timer has id k, no callback is
\* invoked.
C21_DispatchInvokesOwnCallbackOnce ==
    [][Dispatched("WM_TIMER") =>
          LET k == call'.args[1]
              live == {i \in 1 .. Len(g_timers) : g_timers[i].id = k}
          IN  IF live = {} THEN call'.ret = <<>>
              ELSE /\ Cardinality(live) = 1
                   /\ \A i \in live : call'.ret = <<g_timers[i].callback>>]_vars

\* The callback of the dispatched timer killed its own timer and started another one,
\* while a third timer was live: it was called once, and the timer it started was not.
C21_Witness ==
    /\ call.name = "WM_TIMER"
    /\ call.args[2] = <<[op |-> "kill", id |-> call.args[1]],
                        [op |-> "set", callback |-> 2]>>
    /\ call.ret = <<1>>
    /\ call.args[1] \notin TimerIds(g_timers)
    /\ \E i, j \in 1 .. Len(g_timers) : g_timers[i].callback = 1 /\ g_timers[j].callback = 2

(***************************************************************************)
(* The main window claim.                                                  *)
(***************************************************************************)
\* C22: the main window is the window returned by the first gui_window call that
\* yields a non-NULL handle; once set, g_main_window never changes in any later state
\* (not on further gui_window calls, nor on gui_close or destruction of that window),
\* and gui_set_timer registers a timer if and only if g_main_window is non-NULL and
\* fewer than MAX_TIMERS timers are live.
C22_MainWindowSetOnceGatesTimers ==
    [][/\ g_main_window # NULL => g_main_window' = g_main_window
       /\ g_main_window = NULL =>
             IF call'.name = "gui_window" THEN g_main_window' = call'.ret
             ELSE g_main_window' = NULL
       /\ call'.name = "gui_set_timer" =>
             IF g_main_window # NULL /\ Len(g_timers) < MAX_TIMERS
             THEN /\ Len(g_timers') = Len(g_timers) + 1
                  /\ g_timers'[Len(g_timers')].id = call'.ret
                  /\ call'.ret # 0
             ELSE g_timers' = g_timers /\ call'.ret = 0]_vars

\* The main window was closed while another window is open, and a timer was registered
\* after that, filling the table.
C22_Witness ==
    /\ g_main_window # NULL
    /\ g_main_window \notin windows
    /\ windows # {}
    /\ call.name = "gui_set_timer"
    /\ call.ret # 0
    /\ Len(g_timers) = MAX_TIMERS

(***************************************************************************)
(* The bounds claim.                                                       *)
(***************************************************************************)
\* C23: in every reachable state each registry count stays within its array bounds:
\* 0 <= g_callback_count <= MAX_CALLBACKS, 0 <= g_timer_count <= MAX_TIMERS,
\* 0 <= g_canvas_count <= MAX_CANVAS, 0 <= g_menu_callback_count <= MAX_MENU_CALLBACKS,
\* 0 <= g_layout_count <= MAX_LAYOUTS, and 0 <= child_count <= MAX_LAYOUT_CHILDREN for
\* every layout.
C23_CountsWithinBounds ==
    /\ g_callback_count \in 0 .. MAX_CALLBACKS
    /\ g_timer_count \in 0 .. MAX_TIMERS
    /\ g_canvas_count \in 0 .. MAX_CANVAS
    /\ g_menu_callback_count \in 0 .. MAX_MENU_CALLBACKS
    /\ g_layout_count \in 0 .. MAX_LAYOUTS
    /\ \A i \in 1 .. g_layout_count : Len(g_layouts[i].children) \in 0 .. MAX_LAYOUT_CHILDREN

\* Every registry is at its capacity and one more child was offered to the full layout.
C23_Witness ==
    /\ g_callback_count = MAX_CALLBACKS
    /\ g_timer_count = MAX_TIMERS
    /\ g_canvas_count = MAX_CANVAS
    /\ g_menu_callback_count = MAX_MENU_CALLBACKS
    /\ g_layout_count = MAX_LAYOUTS
    /\ Len(g_layouts[1].children) = MAX_LAYOUT_CHILDREN
    /\ call.name = "gui_layout_add"
    /\ setpos = <<>>
====
